---- MODULE Spec2Model ----
(***************************************************************************)
(* models-dev (Node package): the embedded snapshot, its decoder `unpack`  *)
(* and the memoized lookup facade `providers` / `getProviderInfo` /        *)
(* `getModel`.                                                             *)
(*                                                                         *)
(* Abstractions.  JSON text is a sequence of lexemes: the four             *)
(* punctuators and whole string literals; every lexeme is one code point   *)
(* of the text, so that UTF-8, gzip and base64 work on numbers.  A gzip    *)
(* member is a three byte header (ID1, ID2, CM), the data as one stored    *)
(* block, and a two byte trailer (check sum, size), both modulo 256.  A    *)
(* base64 string is a sequence of numbers: 0..63 are the alphabet, 64 is   *)
(* "=", 65 is a character outside the alphabet.                            *)
(***************************************************************************)
EXTENDS Integers, Sequences, FiniteSets, TLC

\* ------------------------------------------------------------------ bounds
\* Providers in the upstream document; calls of the query operations.
MaxProviders == 2
MaxCalls == 2

\* ------------------------------------------------------- JavaScript values
Undefined == [t |-> "undefined"]
Str(s) == [t |-> "string", s |-> s]
Builtin(name) == [t |-> "function", name |-> name]
EmptyObject == [t |-> "object", order |-> <<>>, props |-> [k \in {} |-> Undefined]]

\* Names every ordinary object inherits from Object.prototype.
ObjectPrototypeNames == {"toString", "constructor", "valueOf", "hasOwnProperty"}

\* Canonical array-index keys among the keys of the model, with their value.
IntegerKeys == {"9", "10"}
IndexOf(k) == IF k = "9" THEN 9 ELSE 10

Truthy(v) == /\ v.t # "undefined"
             /\ (v.t = "string" => v.s # "")

\* CreateDataProperty as JSON.parse uses it: a repeated key keeps its place
\* and takes the later value.
DefineProp(obj, k, v) ==
  [t |-> "object",
   order |-> IF k \in DOMAIN obj.props THEN obj.order ELSE Append(obj.order, k),
   props |-> [x \in DOMAIN obj.props \cup {k} |-> IF x = k THEN v ELSE obj.props[x]]]

\* A lookup that asks the prototype chain before the own properties.
GetPropProtoFirst(obj, k) ==
  IF k \in ObjectPrototypeNames THEN Builtin(k)
  ELSE IF obj.t = "object" /\ k \in DOMAIN obj.props THEN obj.props[k]
  ELSE Undefined

\* obj[k] on a value that is not undefined: own property first, then the
\* prototype chain.
GetProp(obj, k) ==
  IF obj.t = "object" /\ k \in DOMAIN obj.props THEN obj.props[k]
  ELSE IF k \in ObjectPrototypeNames THEN Builtin(k)
  ELSE Undefined

RECURSIVE SelectKeys(_, _)
SelectKeys(s, keep) ==
  IF s = <<>> THEN <<>>
  ELSE IF Head(s) \in keep THEN <<Head(s)>> \o SelectKeys(Tail(s), keep)
  ELSE SelectKeys(Tail(s), keep)

RECURSIVE AscendingIndex(_)
AscendingIndex(S) ==
  IF S = {} THEN <<>>
  ELSE LET m == CHOOSE k \in S : \A o \in S : IndexOf(k) <= IndexOf(o)
       IN <<m>> \o AscendingIndex(S \ {m})

\* Own keys in creation order alone, array indices not moved to the front.
OwnKeysInsertion(obj) == obj.order

\* OrdinaryOwnPropertyKeys: array indices in ascending numeric order, then
\* the other string keys in creation order.
OwnKeys(obj) ==
  AscendingIndex(DOMAIN obj.props \cap IntegerKeys)
    \o SelectKeys(obj.order, DOMAIN obj.props \ IntegerKeys)

ObjectValues(obj) == [i \in 1..Len(OwnKeys(obj)) |-> obj.props[OwnKeys(obj)[i]]]

\* ------------------------------------------------------------- JSON text
Punctuators == {"{", "}", ":", ","}
StringLexemes == {"id", "models", "openai", "toString", "9", "10", "gpt-4o"}
Lexemes == Punctuators \cup StringLexemes

\* The code point a lexeme stands for; model ids sit above U+007F so that
\* two-byte UTF-8 sequences occur.
CodePoint(x) ==
  CASE x = "{" -> 123 [] x = "}" -> 125 [] x = ":" -> 58 [] x = "," -> 44
    [] x = "id" -> 105 [] x = "models" -> 109 [] x = "openai" -> 111
    [] x = "toString" -> 116 [] x = "9" -> 57 [] x = "10" -> 49
    [] x = "gpt-4o" -> 231

ReplacementChar == "U+FFFD"
LexemeOf(cp) ==
  CASE cp = 123 -> "{" [] cp = 125 -> "}" [] cp = 58 -> ":" [] cp = 44 -> ","
    [] cp = 105 -> "id" [] cp = 109 -> "models" [] cp = 111 -> "openai"
    [] cp = 116 -> "toString" [] cp = 57 -> "9" [] cp = 49 -> "10"
    [] cp = 231 -> "gpt-4o"
    [] OTHER -> ReplacementChar

Ok(v) == [ok |-> TRUE, value |-> v]
Throw(name, message) == [ok |-> FALSE, error |-> [name |-> name, message |-> message]]

\* JSON.parse on the lexemes: value ::= string | "{" [member {"," member}] "}"
RECURSIVE ParseValue(_), ParseMembers(_, _)
ParseValue(toks) ==
  IF toks = <<>> THEN [ok |-> FALSE]
  ELSE IF Head(toks) \in StringLexemes
    THEN [ok |-> TRUE, val |-> Str(Head(toks)), rest |-> Tail(toks)]
  ELSE IF Head(toks) = "{"
    THEN IF Len(toks) >= 2 /\ toks[2] = "}"
         THEN [ok |-> TRUE, val |-> EmptyObject, rest |-> Tail(Tail(toks))]
         ELSE ParseMembers(Tail(toks), EmptyObject)
  ELSE [ok |-> FALSE]

ParseMembers(toks, obj) ==
  IF Len(toks) < 3 \/ toks[1] \notin StringLexemes \/ toks[2] # ":"
  THEN [ok |-> FALSE]
  ELSE LET v == ParseValue(Tail(Tail(toks)))
       IN IF ~v.ok THEN [ok |-> FALSE]
          ELSE LET next == DefineProp(obj, toks[1], v.val)
               IN IF v.rest = <<>> THEN [ok |-> FALSE]
                  ELSE IF Head(v.rest) = "}"
                    THEN [ok |-> TRUE, val |-> next, rest |-> Tail(v.rest)]
                  ELSE IF Head(v.rest) = ","
                    THEN ParseMembers(Tail(v.rest), next)
                  ELSE [ok |-> FALSE]

JSONparse(text) ==
  LET r == ParseValue(text)
  IN IF r.ok /\ r.rest = <<>> THEN Ok(r.val)
     ELSE Throw("SyntaxError", <<"JSON Parse error">>)

\* ----------------------------------------------------------------- UTF-8
RECURSIVE Utf8Encode(_)
Utf8Encode(text) ==
  IF text = <<>> THEN <<>>
  ELSE LET cp == CodePoint(Head(text))
       IN (IF cp < 128 THEN <<cp>> ELSE <<192 + (cp \div 64), 128 + (cp % 64)>>)
            \o Utf8Encode(Tail(text))

\* Decoding one character per byte (latin1), not UTF-8.
Utf8DecodeLatin1(bytes) == [i \in 1..Len(bytes) |-> LexemeOf(bytes[i])]

\* Non-fatal decoding: an ill-formed sequence becomes U+FFFD.  Sequences of
\* three and four bytes are not in the model and decode to U+FFFD.
RECURSIVE Utf8Decode(_)
Utf8Decode(bytes) ==
  IF bytes = <<>> THEN <<>>
  ELSE LET b == Head(bytes)
       IN IF b < 128 THEN <<LexemeOf(b)>> \o Utf8Decode(Tail(bytes))
          ELSE IF /\ b >= 194 /\ b <= 223 /\ Len(bytes) >= 2
                  /\ bytes[2] >= 128 /\ bytes[2] <= 191
            THEN <<LexemeOf((b - 192) * 64 + (bytes[2] - 128))>>
                   \o Utf8Decode(Tail(Tail(bytes)))
          ELSE <<ReplacementChar>> \o Utf8Decode(Tail(bytes))

\* ------------------------------------------------------------------ gzip
RECURSIVE SumFrom(_, _)
SumFrom(bytes, i) == IF i > Len(bytes) THEN 0 ELSE bytes[i] + SumFrom(bytes, i + 1)
ByteSum(bytes) == SumFrom(bytes, 1) % 256

GzipHeader == <<31, 139, 8>>

GzipSync(bytes) == GzipHeader \o bytes \o <<ByteSum(bytes), Len(bytes) % 256>>

\* Inflate of one member: header check, then the trailer against the data.
Inflate(buffer) ==
  IF Len(buffer) < 3 THEN [ok |-> FALSE, why |-> "unexpected end of file"]
  ELSE IF SubSeq(buffer, 1, 3) # GzipHeader THEN [ok |-> FALSE, why |-> "incorrect header check"]
  ELSE IF Len(buffer) < 5 THEN [ok |-> FALSE, why |-> "unexpected end of file"]
  ELSE LET body == SubSeq(buffer, 4, Len(buffer) - 2)
       IN IF buffer[Len(buffer) - 1] # ByteSum(body)
            THEN [ok |-> FALSE, why |-> "incorrect data check"]
          ELSE IF buffer[Len(buffer)] # Len(body) % 256
            THEN [ok |-> FALSE, why |-> "incorrect length check"]
          ELSE [ok |-> TRUE, bytes |-> body]

\* ---------------------------------------------------------------- base64
Pad == 64
IsSextet(c) == c >= 0 /\ c <= 63

\* Three bytes to four characters; a last group of one or two bytes is
\* filled with zero bits and padded with "=".
Base64Encode(bytes) ==
  LET n == Len(bytes)
      at(k) == IF k <= n THEN bytes[k] ELSE 0
  IN [i \in 1..(4 * ((n + 2) \div 3)) |->
        LET g == 3 * ((i - 1) \div 4)
            r == (i - 1) % 4
        IN CASE r = 0 -> at(g + 1) \div 4
             [] r = 1 -> (at(g + 1) % 4) * 16 + (at(g + 2) \div 16)
             [] r = 2 -> IF g + 2 > n THEN Pad
                         ELSE (at(g + 2) % 16) * 4 + (at(g + 3) \div 64)
             [] r = 3 -> IF g + 3 > n THEN Pad ELSE at(g + 3) % 64]

\* Sextets to bytes; the bits of an incomplete last group are dropped.
SextetsToBytes(s) ==
  [j \in 1..((Len(s) * 3) \div 4) |->
     LET g == 4 * ((j - 1) \div 3)
         r == (j - 1) % 3
     IN CASE r = 0 -> s[g + 1] * 4 + (s[g + 2] \div 16)
          [] r = 1 -> (s[g + 2] % 16) * 16 + (s[g + 3] \div 4)
          [] r = 2 -> (s[g + 3] % 4) * 64 + s[g + 4]]

\* Buffer.from(s, "base64"): characters outside the alphabet are skipped,
\* the first "=" ends the input; it never throws.
LegalPrefix(s) ==
  LET pads == {i \in 1..Len(s) : s[i] = Pad}
      stop == IF pads = {} THEN Len(s) + 1
              ELSE CHOOSE i \in pads : \A j \in pads : i <= j
  IN SelectSeq(SubSeq(s, 1, stop - 1), IsSextet)

BufferFromBase64(s) == SextetsToBytes(LegalPrefix(s))

\* atob(s): forgiving-base64 decode; throws on a character outside the
\* alphabet, on "=" anywhere but in a final group of four, and on a length
\* that leaves one sextet over.
StripPadding(s) ==
  IF Len(s) % 4 = 0 /\ Len(s) > 0 /\ s[Len(s)] = Pad
  THEN IF s[Len(s) - 1] = Pad THEN SubSeq(s, 1, Len(s) - 2)
       ELSE SubSeq(s, 1, Len(s) - 1)
  ELSE s

Atob(s) ==
  LET d == StripPadding(s)
  IN IF Len(d) % 4 = 1 \/ \E i \in 1..Len(d) : ~IsSextet(d[i])
     THEN [ok |-> FALSE]
     ELSE [ok |-> TRUE, bytes |-> SextetsToBytes(d)]

\* ---------------------------------------------------------------- unpack
\* scripts/update.ts main: text -> gzipSync -> base64
Main(json) == Base64Encode(GzipSync(Utf8Encode(json)))

UnpackNode(base64) ==
  LET buffer == BufferFromBase64(base64)
      z == Inflate(buffer)
  IN IF ~z.ok THEN Throw("Error", <<z.why>>)
     ELSE JSONparse(Utf8Decode(z.bytes))

UnpackBrowser(base64) ==
  LET binary == Atob(base64)
  IN IF ~binary.ok THEN Throw("InvalidCharacterError", <<"The string to be decoded is not correctly encoded.">>)
     ELSE LET z == Inflate(binary.bytes)
          IN IF ~z.ok THEN Throw("TypeError", <<"The compressed data was not valid">>)
             ELSE JSONparse(Utf8Decode(z.bytes))

unpack(node, base64) == IF node THEN UnpackNode(base64) ELSE UnpackBrowser(base64)

\* ------------------------------------------------- the upstream document
\* A catalog is the sequence of provider ids in upstream publication order;
\* every provider's id is its key, every model's id is its key.
ProviderKeys == {"openai", "toString", "9", "10"}
ModelKeysOf(k) == IF k = "openai" THEN <<"gpt-4o">> ELSE <<>>

Range(s) == {s[i] : i \in 1..Len(s)}
Catalogs ==
  {c \in UNION {[1..n -> ProviderKeys] : n \in 0..MaxProviders} :
     \A i, j \in 1..Len(c) : i # j => c[i] # c[j]}

Commas(rest) == IF rest = <<>> THEN <<>> ELSE <<",">>

RenderModel(m) == <<"{", "id", ":", m, "}">>

RECURSIVE RenderModels(_)
RenderModels(keys) ==
  IF keys = <<>> THEN <<>>
  ELSE <<Head(keys), ":">> \o RenderModel(Head(keys)) \o Commas(Tail(keys))
         \o RenderModels(Tail(keys))

RenderProvider(k) ==
  <<"{", "id", ":", k, ",", "models", ":", "{">>
    \o RenderModels(ModelKeysOf(k)) \o <<"}", "}">>

RECURSIVE RenderProviders(_)
RenderProviders(keys) ==
  IF keys = <<>> THEN <<>>
  ELSE <<Head(keys), ":">> \o RenderProvider(Head(keys)) \o Commas(Tail(keys))
         \o RenderProviders(Tail(keys))

Render(c) == <<"{">> \o RenderProviders(c) \o <<"}">>

\* The response body: the document, or a body cut short (update.ts writes
\* whatever text a 200 response carries).
BodyKinds == {"document", "cut"}
Body(c, kind) ==
  IF kind = "document" THEN Render(c) ELSE SubSeq(Render(c), 1, Len(Render(c)) - 1)

ModelValue(m) ==
  [t |-> "object", order |-> <<"id">>, props |-> [x \in {"id"} |-> Str(m)]]
ModelsValue(k) ==
  [t |-> "object", order |-> ModelKeysOf(k),
   props |-> [m \in Range(ModelKeysOf(k)) |-> ModelValue(m)]]
ProviderValue(k) ==
  [t |-> "object", order |-> <<"id", "models">>,
   props |-> [x \in {"id", "models"} |-> IF x = "id" THEN Str(k) ELSE ModelsValue(k)]]
ProvidersData(c) ==
  [t |-> "object", order |-> c, props |-> [k \in Range(c) |-> ProviderValue(k)]]

\* ---------------------------------------------------------------- facade
NotFoundProvider(providerId) == Throw("Error", <<"Provider not found: ", providerId>>)
NotFoundModel(providerId, modelId) ==
  Throw("Error", <<"Model not found: ", modelId, " in provider ", providerId>>)

providers(data) == Ok(ObjectValues(data))

getProviderInfo(data, providerId) ==
  LET provider == GetProp(data, providerId)
  IN IF ~Truthy(provider) THEN NotFoundProvider(providerId) ELSE Ok(provider)

getModel(data, providerId, modelId) ==
  LET p == getProviderInfo(data, providerId)
  IN IF ~p.ok THEN p
     ELSE LET models == GetProp(p.value, "models")
          IN IF models.t = "undefined"
             THEN Throw("TypeError", <<"undefined is not an object">>)
             ELSE LET model == GetProp(models, modelId)
                  IN IF ~Truthy(model) THEN NotFoundModel(providerId, modelId)
                     ELSE Ok(model)

\* ------------------------------------------------------------------ state
\* Every call of a query operation is a promise of its own; the calls are
\* numbered in the order they are made.
VARIABLES catalog, body, json, damage, DATA, isNode, decoded, _data, pc, op,
          result, decodes, calls, checks, writes, out

vars == <<catalog, body, json, damage, DATA, isNode, decoded, _data, pc, op,
          result, decodes, calls, checks, writes, out>>

\* What never changes in a run: the upstream document, the response body
\* and the payload made of it, and the environment.
build == <<catalog, body, json, damage, DATA, isNode, decoded>>

Calls == 1..MaxCalls
\* The ids the callers ask for: own keys, names inherited from
\* Object.prototype, and ids no catalog has.
ProviderIds == {"openai", "toString", "9", "nonexistent"}
ModelProviderIds == {"openai", "toString"}
ModelIds == {"gpt-4o", "toString"}

Null == [t |-> "null"]
NoOp == [name |-> "none"]
None == [ok |-> FALSE, error |-> [name |-> "none", message |-> <<>>]]

\* `!_data`
Absent(d) == d.t = "null"

Answer(o, data) ==
  CASE o.name = "providers" -> providers(data)
    [] o.name = "getProviderInfo" -> getProviderInfo(data, o.providerId)
    [] o.name = "getModel" -> getModel(data, o.providerId, o.modelId)

\* unpack is a function of DATA and isNode alone, and neither changes: every
\* decode of a run settles with the same outcome, held in `decoded` (each
\* fulfilment is a new object, numbered by `writes`).
Init ==
  /\ catalog \in Catalogs
  /\ body \in BodyKinds
  /\ json = Body(catalog, body)
  /\ damage = "none"
  /\ DATA = Main(json)
  /\ isNode \in BOOLEAN
  /\ decoded = unpack(isNode, DATA)
  /\ _data = Null
  /\ pc = [c \in Calls |-> "idle"]
  /\ op = [c \in Calls |-> NoOp]
  /\ result = [c \in Calls |-> None]
  /\ decodes = 0
  /\ calls = 0
  /\ checks = 0
  /\ writes = 0
  /\ out = None

\* A hit that also drops the cached data.
EnterEvict(c, o) ==
  /\ c = calls + 1
  /\ calls' = c
  /\ checks' = IF writes = 0 THEN checks + 1 ELSE checks
  /\ op' = [op EXCEPT ![c] = o]
  /\ IF Absent(_data)
     THEN /\ decodes' = decodes + 1
          /\ pc' = [pc EXCEPT ![c] = "unpacking"]
          /\ UNCHANGED <<result, _data>>
     ELSE /\ pc' = [pc EXCEPT ![c] = "done"]
          /\ result' = [result EXCEPT ![c] = Answer(o, _data.content)]
          /\ _data' = Null
          /\ UNCHANGED decodes
  /\ UNCHANGED <<build, writes, out>>

\* A query operation up to its first suspension: getData tests the cache;
\* on a miss it calls unpack(DATA), which suspends at its first await; on a
\* hit the operation runs to its end on the cached value.
Enter(c, o) ==
  /\ c = calls + 1
  /\ calls' = c
  /\ checks' = IF writes = 0 THEN checks + 1 ELSE checks
  /\ op' = [op EXCEPT ![c] = o]
  /\ IF Absent(_data)
     THEN /\ decodes' = decodes + 1
          /\ pc' = [pc EXCEPT ![c] = "unpacking"]
          /\ UNCHANGED result
     ELSE /\ pc' = [pc EXCEPT ![c] = "done"]
          /\ result' = [result EXCEPT ![c] = Answer(o, _data.content)]
          /\ UNCHANGED decodes
  /\ UNCHANGED <<build, _data, writes, out>>

CallProviders(c) == Enter(c, [name |-> "providers"])

CallGetProviderInfo(c, providerId) ==
  Enter(c, [name |-> "getProviderInfo", providerId |-> providerId])

CallGetModel(c, providerId, modelId) ==
  Enter(c, [name |-> "getModel", providerId |-> providerId, modelId |-> modelId])

\* A settle that keeps a cache already populated (`_data ??= ...`).
UnpackSettlesKeepFirst(c) ==
  /\ pc[c] = "unpacking"
  /\ LET r == decoded
     IN IF r.ok
        THEN /\ _data' = IF Absent(_data)
                         THEN [t |-> "ref", obj |-> writes + 1, content |-> r.value]
                         ELSE _data
             /\ writes' = IF Absent(_data) THEN writes + 1 ELSE writes
             /\ result' = [result EXCEPT ![c] = Answer(op[c], r.value)]
        ELSE /\ result' = [result EXCEPT ![c] = r]
             /\ UNCHANGED <<_data, writes>>
  /\ pc' = [pc EXCEPT ![c] = "done"]
  /\ UNCHANGED <<build, op, decodes, calls, checks, out>>

\* A settle that memoizes a failed decode as an empty catalog.
UnpackSettlesMemoFail(c) ==
  /\ pc[c] = "unpacking"
  /\ LET r == decoded
     IN IF r.ok
        THEN /\ _data' = [t |-> "ref", obj |-> writes + 1, content |-> r.value]
             /\ result' = [result EXCEPT ![c] = Answer(op[c], r.value)]
        ELSE /\ _data' = [t |-> "ref", obj |-> writes + 1, content |-> EmptyObject]
             /\ result' = [result EXCEPT ![c] = r]
  /\ writes' = writes + 1
  /\ pc' = [pc EXCEPT ![c] = "done"]
  /\ UNCHANGED <<build, op, decodes, calls, checks, out>>

\* unpack settles.  Fulfilled: `_data = await unpack(DATA); return _data`,
\* and the operation runs to its end on the value it was handed.  Rejected:
\* the await in getData throws before the assignment, and the rejection
\* passes through the operation.
UnpackSettles(c) ==
  /\ pc[c] = "unpacking"
  /\ LET r == decoded
     IN IF r.ok
        THEN /\ _data' = [t |-> "ref", obj |-> writes + 1, content |-> r.value]
             /\ writes' = writes + 1
             /\ result' = [result EXCEPT ![c] = Answer(op[c], r.value)]
        ELSE /\ result' = [result EXCEPT ![c] = r]
             /\ UNCHANGED <<_data, writes>>
  /\ pc' = [pc EXCEPT ![c] = "done"]
  /\ UNCHANGED <<build, op, decodes, calls, checks, out>>

Next ==
  \E c \in Calls :
    \/ CallProviders(c)
    \/ \E providerId \in ProviderIds : CallGetProviderInfo(c, providerId)
    \/ \E providerId \in ModelProviderIds, modelId \in ModelIds :
         CallGetModel(c, providerId, modelId)
    \/ UnpackSettles(c)

Spec == Init /\ [][Next]_vars

\* ---------------------------------------------- unpack as a pure function
\* Payloads handed to unpack: what update.ts wrote, and damaged copies of it.
Illegal == Pad + 1

DamageKinds ==
  {"none", "illegal appended", "illegal inside", "pad inside", "cut by four",
   "cut by three", "padding removed", "first changed", "empty"}

Damaged(p, kind) ==
  CASE kind = "none" -> p
    [] kind = "illegal appended" -> Append(p, Illegal)
    [] kind = "illegal inside" -> SubSeq(p, 1, 2) \o <<Illegal>> \o SubSeq(p, 3, Len(p))
    [] kind = "pad inside" -> SubSeq(p, 1, 4) \o <<Pad>> \o SubSeq(p, 5, Len(p))
    [] kind = "cut by four" -> SubSeq(p, 1, Len(p) - 4)
    [] kind = "cut by three" -> SubSeq(p, 1, Len(p) - 3)
    [] kind = "padding removed" -> SelectSeq(p, IsSextet)
    [] kind = "first changed" -> <<(p[1] + 1) % 64>> \o Tail(p)
    [] kind = "empty" -> <<>>

CodecInit ==
  /\ catalog \in Catalogs
  /\ body \in BodyKinds
  /\ json = Body(catalog, body)
  /\ damage \in DamageKinds
  /\ DATA = Damaged(Main(json), damage)
  /\ isNode \in BOOLEAN
  /\ decoded = None
  /\ _data = Null
  /\ pc = [c \in Calls |-> "idle"]
  /\ op = [c \in Calls |-> NoOp]
  /\ result = [c \in Calls |-> None]
  /\ decodes = 0
  /\ calls = 0
  /\ checks = 0
  /\ writes = 0
  /\ out = None

Unpack ==
  /\ out = None
  /\ out' = unpack(isNode, DATA)
  /\ UNCHANGED <<build, _data, pc, op, result, decodes, calls, checks, writes>>

CodecNext == Unpack

CodecSpec == CodecInit /\ [][CodecNext]_vars

\* ================================================================ claims
Done(t, name) == pc[t] = "done" /\ op[t].name = name
Intact == body = "document" /\ damage = "none"
Position(k) == CHOOSE i \in 1..Len(catalog) : catalog[i] = k
IdOf(p) == p.props["id"].s

\* C1: getProviderInfo(providerId) returns the provider stored under exactly
\* that key when providerId is a key of ProvidersData, and otherwise fails
\* with "Provider not found: " followed by providerId.
C1_ExactKeyLookup ==
  \A t \in Calls :
    Done(t, "getProviderInfo") /\ Intact =>
      IF op[t].providerId \in Range(catalog)
      THEN result[t] = Ok(ProviderValue(op[t].providerId))
      ELSE result[t] = NotFoundProvider(op[t].providerId)

\* C2: getModel fails with the provider error when providerId is not a key,
\* with the model error when the provider exists and modelId is not a key of
\* its models, and otherwise returns the model stored under that key.
C2_ProviderThenModel ==
  \A t \in Calls :
    Done(t, "getModel") /\ Intact =>
      IF op[t].providerId \notin Range(catalog)
      THEN result[t] = NotFoundProvider(op[t].providerId)
      ELSE IF op[t].modelId \notin Range(ModelKeysOf(op[t].providerId))
      THEN result[t] = NotFoundModel(op[t].providerId, op[t].modelId)
      ELSE result[t] = Ok(ModelValue(op[t].modelId))

\* C3: over any interleaving of calls the decoder is invoked exactly once.
C3_DecodeExactlyOnce == decodes <= 1 /\ (calls > 0 => decodes = 1)

\* C4: for every provider p returned by providers(), getProviderInfo(p.id)
\* succeeds and returns a value equal to p.
C4_ListedProvidersResolve ==
  \A t1, t2 \in Calls :
    Done(t1, "providers") /\ result[t1].ok /\ Done(t2, "getProviderInfo") =>
      \A i \in 1..Len(result[t1].value) :
        IdOf(result[t1].value[i]) = op[t2].providerId =>
          result[t2] = Ok(result[t1].value[i])

C4_Witness ==
  \E t1, t2 \in Calls :
    /\ Done(t1, "providers") /\ result[t1].ok /\ Done(t2, "getProviderInfo")
    /\ op[t2].providerId = "toString"
    /\ \E i \in 1..Len(result[t1].value) : IdOf(result[t1].value[i]) = "toString"

\* C5 as stated: providers() returns every value exactly once in the
\* insertion order of the keys of the decoded JSON object, for every key set.
C5_InsertionOrder ==
  \A t \in Calls :
    Done(t, "providers") /\ Intact =>
      result[t] = Ok([i \in 1..Len(catalog) |-> ProviderValue(catalog[i])])

\* C5 amended: providers() succeeds once the data is decoded and returns
\* every value exactly once: the values under array-index keys first, in
\* ascending numeric order, then the others in insertion order.
C5_OwnKeyOrder ==
  \A t \in Calls :
    Done(t, "providers") /\ Intact =>
      /\ result[t].ok
      /\ Len(result[t].value) = Len(catalog)
      /\ \A k \in Range(catalog) :
           \E i \in 1..Len(catalog) : result[t].value[i] = ProviderValue(k)
      /\ \A i, j \in 1..Len(result[t].value) :
           i < j =>
             LET a == IdOf(result[t].value[i])
                 b == IdOf(result[t].value[j])
             IN /\ b \in IntegerKeys => a \in IntegerKeys
                /\ a \in IntegerKeys /\ b \in IntegerKeys => IndexOf(a) < IndexOf(b)
                /\ a \notin IntegerKeys /\ b \notin IntegerKeys => Position(a) < Position(b)

C5_Witness ==
  \E t \in Calls :
    /\ Done(t, "providers") /\ Intact /\ result[t].ok
    /\ Len(catalog) = 2 /\ catalog[1] \notin IntegerKeys /\ catalog[2] \in IntegerKeys

\* C6: unpack fails whenever the payload is not valid base64 (padding may be
\* left out), its bytes are not a valid gzip stream, or the decompressed text
\* is not valid JSON.
ValidBase64(s) ==
  \E n \in 0..2 :
    /\ n <= Len(s)
    /\ n > 0 => Len(s) % 4 = 0
    /\ (Len(s) - n) % 4 # 1
    /\ \A i \in 1..Len(s) : IF i > Len(s) - n THEN s[i] = Pad ELSE IsSextet(s[i])

WellFormed(s) ==
  /\ ValidBase64(s)
  /\ Inflate(SextetsToBytes(SelectSeq(s, IsSextet))).ok
  /\ JSONparse(Utf8Decode(Inflate(SextetsToBytes(SelectSeq(s, IsSextet))).bytes)).ok

C6_InvalidPayloadFails ==
  out # None /\ ~WellFormed(DATA) => ~out.ok

\* C7: for every valid document, unpack of base64(gzip(utf8(document)))
\* returns a structure equal to the document, the same in both branches.
C7_RoundTrip ==
  out # None /\ Intact =>
    /\ out = Ok(ProvidersData(catalog))
    /\ UnpackNode(DATA) = UnpackBrowser(DATA)

C7_Witness ==
  /\ out # None /\ Intact /\ out.ok
  /\ Len(catalog) = 2 /\ catalog[2] = "openai"

C9_CacheStable ==
  /\ [](/\ Absent(_data) \/ (Intact /\ _data.content = ProvidersData(catalog))
        /\ \A t1, t2 \in Calls :
             Done(t1, "providers") /\ Done(t2, "providers") /\ result[t1].ok
             => result[t2] = result[t1])
  /\ [][~Absent(_data) => ~Absent(_data') /\ _data'.content = _data.content]_vars

C9_Witness ==
  /\ writes = 2
  /\ \E t1, t2 \in Calls :
       t1 # t2 /\ Done(t1, "providers") /\ Done(t2, "providers") /\ result[t1].ok

\* C10: a decode that fails leaves the cache absent, the operation rejects
\* with the decoder's error, and the next call decodes again.
C10_FailureNotMemoized ==
  /\ [](body = "cut" => Absent(_data))
  /\ [][\A t \in Calls :
          /\ pc[t] = "unpacking" /\ pc'[t] = "done" /\ body = "cut"
             => /\ _data' = _data
                /\ result'[t] = Throw("SyntaxError", <<"JSON Parse error">>)
          /\ /\ pc[t] = "idle" /\ pc'[t] # "idle"
             /\ \E u \in Calls : pc[u] = "done" /\ ~result[u].ok
                                 /\ result[u].error.name = "SyntaxError"
             => pc'[t] = "unpacking" /\ decodes' = decodes + 1
       ]_vars

C10_Witness ==
  /\ decodes = 2
  /\ \E t, u \in Calls :
       /\ pc[u] = "done" /\ ~result[u].ok /\ result[u].error.name = "SyntaxError"
       /\ pc[t] = "unpacking"

====
